---- MODULE Spec2Model ----
(***************************************************************************)
(* Model of the ballast water exchange simulator (src/main.py).            *)
(*                                                                         *)
(* Numbers.  The program computes with floats; the model computes with     *)
(* fixed-point integers.  A flow rate is held in tenths (the slider's      *)
(* step), a noise draw in hundredths, so flow * noise is an exact number   *)
(* of thousandths, and a concentration is held in thousandths: the value   *)
(* 1.0 is Scale.  The product with (1 - efficiency / 100) is rounded down  *)
(* to a thousandth, and so is the mean.  Lengths, widths, heights and      *)
(* efficiencies are whole numbers.                                         *)
(*                                                                         *)
(* The 100 x 100 grid is modelled by NumCells cells.                       *)
(***************************************************************************)
EXTENDS Integers, Sequences, FiniteSets

VARIABLES
    \* the sidebar widgets' values, as the script's globals hold them
    tank_length, tank_width, tank_height, flow_rate, exchange_efficiency,
    \* st.session_state
    concentration, time_step, efficiency_over_time, flow_rate_impact,
    tank_area_impact,
    \* the fragments have been called by a script run (and so rerun on their timers)
    registered,
    \* the figure drawn last, and the plot that raised (or "none")
    figure, error,
    \* history: the flow rate each tick used, and the length of
    \* flow_rate_impact after each tick
    flow_hist, fri_len_hist

params == <<tank_length, tank_width, tank_height, flow_rate, exchange_efficiency>>
session == <<concentration, time_step, efficiency_over_time, flow_rate_impact,
             tank_area_impact>>
history == <<flow_hist, fri_len_hist>>
vars == <<params, session, registered, figure, error, history>>

----------------------------------------------------------------------------
(* Bounds *)

\* the number of ticks a behaviour runs
MaxTicks == 3
\* the number of cells of the grid
NumCells == 2

(* Units *)
FlowDen == 10
NoiseDen == 100
PctDen == 100
Scale == FlowDen * NoiseDen

Cells == 1..NumCells

\* np.random.uniform(-0.05, 0.05): the two ends of the interval, in hundredths
NoiseMax == 5
NoiseValues == {-NoiseMax, NoiseMax}
NoiseFields == [Cells -> NoiseValues]

(* The sliders' defaults, and the values a user moves them to *)
DefaultLength == 50
DefaultWidth == 20
DefaultHeight == 10
DefaultFlow == 10
DefaultEfficiency == 80

LengthValues == {DefaultLength, 200}
WidthValues == {DefaultWidth}
HeightValues == {DefaultHeight, 20}
FlowValues == {DefaultFlow, 100}
EfficiencyValues == {DefaultEfficiency, 100}

(* The values a caller of the core may hand it, the sliders' ranges aside: *)
(* negative, zero and huge flow rates, efficiencies below 0 and above 100, *)
(* tank dimensions that are not positive                                   *)
AnyLengthValues == {0, DefaultLength}
AnyWidthValues == {-5, DefaultWidth}
AnyFlowValues == {-100, 0, DefaultFlow, 1000}
AnyEfficiencyValues == {-50, 0, DefaultEfficiency, 100, 150}

----------------------------------------------------------------------------
(* Helpers *)

Last(s) == s[Len(s)]

RECURSIVE SumTo(_, _)
SumTo(f, n) == IF n = 0 THEN 0 ELSE f[n] + SumTo(f, n - 1)

\* np.mean over the grid
Mean(field) == SumTo(field, NumCells) \div NumCells

\* np.clip(x, lo, hi)
Clip(x, lo, hi) == IF x < lo THEN lo ELSE IF x > hi THEN hi ELSE x

\* np.ones((100, 100))
Ones == [c \in Cells |-> Scale]

----------------------------------------------------------------------------
(* update_concentration: noise is the field np.random.uniform drew *)

\* the update without its np.clip
update_concentration_unclamped(field, flow, efficiency, noise) ==
    [c \in Cells |->
        ((field[c] + flow * noise[c]) * (PctDen - efficiency)) \div PctDen]

\* the decay factor taken as efficiency / 100 instead of 1 - efficiency / 100
update_concentration_kept_share(field, flow, efficiency, noise) ==
    [c \in Cells |->
        Clip(((field[c] + flow * noise[c]) * efficiency) \div PctDen,
             0, Scale)]

\* the decay applied before the noise is added
update_concentration_noise_last(field, flow, efficiency, noise) ==
    [c \in Cells |->
        Clip((field[c] * (PctDen - efficiency)) \div PctDen + flow * noise[c],
             0, Scale)]

\* the noise added as drawn, not scaled by the flow rate (in thousandths, a
\* hundredth is FlowDen)
update_concentration_unscaled_noise(field, flow, efficiency, noise) ==
    [c \in Cells |->
        Clip(((field[c] + FlowDen * noise[c]) * (PctDen - efficiency))
                 \div PctDen,
             0, Scale)]

update_concentration(field, flow, efficiency, noise) ==
    [c \in Cells |->
        Clip(((field[c] + flow * noise[c]) * (PctDen - efficiency)) \div PctDen,
             0, Scale)]

----------------------------------------------------------------------------
(* The Metrics Recorder's three appends (run_simulation, lines 57-67) *)

\* the entry put in front of the series (insert(0, ...) for append)
RecordEfficiency_prepend(series, step, avg) == <<(<<step, avg>>)>> \o series

\* the step recorded as it was before the increment
RecordEfficiency_prior_step(series, step, avg) ==
    Append(series, <<step - 1, avg>>)

RecordEfficiency(series, step, avg) == Append(series, <<step, avg>>)

\* the duplicate test reading the entry's other component
RecordFlowRate_other_component(series, flow, avg) ==
    IF series = <<>> \/ Last(series)[2] # flow
    THEN Append(series, <<flow, avg>>)
    ELSE series

\* the append without the duplicate test
RecordFlowRate_always(series, flow, avg) == Append(series, <<flow, avg>>)

\* the duplicate test with "not ... or" turned into "... and"
RecordFlowRate_inverted(series, flow, avg) ==
    IF series # <<>> /\ Last(series)[1] # flow
    THEN Append(series, <<flow, avg>>)
    ELSE series

\* the duplicate test run against every recorded entry
RecordFlowRate_full_history(series, flow, avg) ==
    IF \A k \in 1..Len(series) : series[k][1] # flow
    THEN Append(series, <<flow, avg>>)
    ELSE series

\* the last entry's average refreshed when the flow rate is the same
RecordFlowRate_refresh(series, flow, avg) ==
    IF series = <<>> \/ Last(series)[1] # flow
    THEN Append(series, <<flow, avg>>)
    ELSE [series EXCEPT ![Len(series)] = <<flow, avg>>]

RecordFlowRate(series, flow, avg) ==
    IF series = <<>> \/ Last(series)[1] # flow
    THEN Append(series, <<flow, avg>>)
    ELSE series

\* the tank area series de-duplicated as the flow rate series is
RecordTankArea_dedup(series, length, width, avg) ==
    IF series = <<>> \/ Last(series)[1] # length * width
    THEN Append(series, <<length * width, avg>>)
    ELSE series

\* the average rounded to two decimals for this series alone
RecordTankArea_rounded(series, length, width, avg) ==
    Append(series, <<length * width, (avg \div 10) * 10>>)

\* the area taken with the tank's height for its width
RecordTankArea_with_height(series, length, width, avg) ==
    Append(series, <<length * tank_height', avg>>)

RecordTankArea(series, length, width, avg) ==
    Append(series, <<length * width, avg>>)

\* "=+ 1" for "+= 1"
next_time_step_assign(step) == 1

\* st.session_state.time_step += 1
next_time_step(step) == step + 1

\* the mean taken before the session's field is replaced
avg_concentration_stale(old_field, new_field) == Mean(old_field)

\* avg_concentration = np.mean(st.session_state.concentration), read after
\* the session's field has been replaced by the updated one
avg_concentration(old_field, new_field) == Mean(new_field)

(* run_simulation: one tick, with the globals the script run left (primed: *)
(* a script run sets them before it calls run_simulation)                  *)
run_simulation(noise) ==
    LET new_field == update_concentration(concentration, flow_rate',
                                          exchange_efficiency', noise)
        avg == avg_concentration(concentration, new_field)
    IN  /\ time_step' = next_time_step(time_step)
        /\ concentration' = new_field
        /\ efficiency_over_time' =
               RecordEfficiency(efficiency_over_time, time_step', avg)
        /\ flow_rate_impact' = RecordFlowRate(flow_rate_impact, flow_rate', avg)
        /\ tank_area_impact' =
               RecordTankArea(tank_area_impact, tank_length', tank_width', avg)
        /\ flow_hist' = Append(flow_hist, flow_rate')
        /\ fri_len_hist' = Append(fri_len_hist, Len(flow_rate_impact'))

----------------------------------------------------------------------------
(* The plot fragments *)

\* zip(*series): the first and the second components; with an empty series
\* there is nothing to unpack into the two names and the assignment raises
CanUnpack(series) == series # <<>>
Unzip(series) == << [i \in 1..Len(series) |-> series[i][1]],
                    [i \in 1..Len(series) |-> series[i][2]] >>

SeriesFigure(name, series) ==
    [plot |-> name, xs |-> Unzip(series)[1], ys |-> Unzip(series)[2]]

\* plot_concentration_dynamics: the field, titled with the step
FieldFigure(field, step) ==
    [plot |-> "plot_concentration_dynamics", xs |-> field, ys |-> <<step>>]

NoFigure == [plot |-> "none", xs |-> <<>>, ys |-> <<>>]

\* lines 141-153 of a script run: the four plots in order, on the state the
\* tick left; a plot that raises ends the script run
ScriptPlots ==
    IF ~CanUnpack(efficiency_over_time')
    THEN /\ error' = "plot_efficiency_over_time"
         /\ figure' = FieldFigure(concentration', time_step')
    ELSE IF ~CanUnpack(flow_rate_impact')
    THEN /\ error' = "plot_flow_rate_impact"
         /\ figure' = SeriesFigure("plot_efficiency_over_time",
                                   efficiency_over_time')
    ELSE IF ~CanUnpack(tank_area_impact')
    THEN /\ error' = "plot_tank_dimension_impact"
         /\ figure' = SeriesFigure("plot_flow_rate_impact", flow_rate_impact')
    ELSE /\ error' = "none"
         /\ figure' = SeriesFigure("plot_tank_dimension_impact",
                                   tank_area_impact')

\* a plot fragment rerun on its timer
PlotFragment(name, series) ==
    /\ registered
    /\ IF CanUnpack(series)
       THEN /\ figure' = SeriesFigure(name, series)
            /\ error' = IF error = name THEN "none" ELSE error
       ELSE /\ error' = name
            /\ figure' = figure
    /\ UNCHANGED <<params, session, registered, history>>

plot_efficiency_over_time ==
    PlotFragment("plot_efficiency_over_time", efficiency_over_time)

plot_flow_rate_impact ==
    PlotFragment("plot_flow_rate_impact", flow_rate_impact)

plot_tank_dimension_impact ==
    PlotFragment("plot_tank_dimension_impact", tank_area_impact)

plot_concentration_dynamics ==
    /\ registered
    /\ figure' = FieldFigure(concentration, time_step)
    /\ UNCHANGED <<params, session, registered, error, history>>

----------------------------------------------------------------------------
(* The script *)

\* the model stops after MaxTicks ticks
WithinBound == time_step < MaxTicks

\* a rerun is caused by one widget (or by none: the first run, a manual rerun)
OneWidget(len, wid, hei, fl, eff) ==
    Cardinality({i \in 1..5 :
                    <<len, wid, hei, fl, eff>>[i] # params[i]}) <= 1

\* A run of the whole script: the sliders give their values (lines 13-17),
\* the session state exists already (lines 20-29), run_simulation is called
\* (line 133) and then the four plots (lines 141-153).  The first run is with
\* the sliders' defaults.
ScriptRun ==
    /\ WithinBound
    /\ \E len \in LengthValues, wid \in WidthValues, hei \in HeightValues,
          fl \in FlowValues, eff \in EfficiencyValues :
        /\ OneWidget(len, wid, hei, fl, eff)
        /\ registered \/ <<len, wid, hei, fl, eff>> = params
        /\ \E noise \in NoiseFields :
            /\ tank_length' = len
            /\ tank_width' = wid
            /\ tank_height' = hei
            /\ flow_rate' = fl
            /\ exchange_efficiency' = eff
            /\ run_simulation(noise)
            /\ registered' = TRUE
            /\ ScriptPlots

\* run_simulation rerun on its timer (st.fragment(run_every=1))
RunSimulationFragment ==
    /\ WithinBound
    /\ registered
    /\ \E noise \in NoiseFields :
        /\ UNCHANGED <<params, registered, figure, error>>
        /\ run_simulation(noise)

Init ==
    /\ tank_length = DefaultLength
    /\ tank_width = DefaultWidth
    /\ tank_height = DefaultHeight
    /\ flow_rate = DefaultFlow
    /\ exchange_efficiency = DefaultEfficiency
    /\ concentration = Ones
    /\ time_step = 0
    /\ efficiency_over_time = <<>>
    /\ flow_rate_impact = <<>>
    /\ tank_area_impact = <<>>
    /\ registered = FALSE
    /\ figure = NoFigure
    /\ error = "none"
    /\ flow_hist = <<>>
    /\ fri_len_hist = <<>>

Next ==
    \/ ScriptRun
    \/ RunSimulationFragment
    \/ plot_concentration_dynamics
    \/ plot_efficiency_over_time
    \/ plot_flow_rate_impact
    \/ plot_tank_dimension_impact

Spec == Init /\ [][Next]_vars

----------------------------------------------------------------------------
(* The core called directly: the caller chooses the parameters, in or out  *)
(* of the sliders' ranges, holds them, and advances the session tick by    *)
(* tick.                                                                   *)

InitAny ==
    /\ tank_length \in AnyLengthValues
    /\ tank_width \in AnyWidthValues
    /\ tank_height = DefaultHeight
    /\ flow_rate \in AnyFlowValues
    /\ exchange_efficiency \in AnyEfficiencyValues
    /\ concentration = Ones
    /\ time_step = 0
    /\ efficiency_over_time = <<>>
    /\ flow_rate_impact = <<>>
    /\ tank_area_impact = <<>>
    /\ registered = FALSE
    /\ figure = NoFigure
    /\ error = "none"
    /\ flow_hist = <<>>
    /\ fri_len_hist = <<>>

\* a tick that validates its parameters and leaves the session alone when
\* one is not positive
AdvanceTick_rejecting ==
    /\ WithinBound
    /\ \E noise \in NoiseFields :
        /\ UNCHANGED <<params, registered, figure, error>>
        /\ IF flow_rate <= 0 \/ tank_length <= 0 \/ tank_width <= 0
           THEN /\ UNCHANGED session
                /\ flow_hist' = Append(flow_hist, flow_rate)
                /\ fri_len_hist' = Append(fri_len_hist, Len(flow_rate_impact))
           ELSE run_simulation(noise)

AdvanceTick ==
    /\ WithinBound
    /\ \E noise \in NoiseFields :
        /\ UNCHANGED <<params, registered, figure, error>>
        /\ run_simulation(noise)

NextAny == AdvanceTick

SpecAny == InitAny /\ [][NextAny]_vars

----------------------------------------------------------------------------
(* The Field Updater on any field: the session holds a field with cells in *)
(* [0, 1] (0, 0.5 or 1.0 each), the flow rate is 0, so that flow * noise   *)
(* adds nothing, and the efficiency is any value.                          *)

FieldValues == {0, Scale \div 2, Scale}

InitField ==
    /\ tank_length = DefaultLength
    /\ tank_width = DefaultWidth
    /\ tank_height = DefaultHeight
    /\ flow_rate = 0
    /\ exchange_efficiency \in AnyEfficiencyValues
    /\ concentration \in [Cells -> FieldValues]
    /\ time_step = 0
    /\ efficiency_over_time = <<>>
    /\ flow_rate_impact = <<>>
    /\ tank_area_impact = <<>>
    /\ registered = FALSE
    /\ figure = NoFigure
    /\ error = "none"
    /\ flow_hist = <<>>
    /\ fri_len_hist = <<>>

SpecField == InitField /\ [][NextAny]_vars

----------------------------------------------------------------------------
(* Properties *)

\* the ticks run so far, and whether a step is a tick
Ticks == Len(flow_hist)
IsTick == Len(flow_hist') = Len(flow_hist) + 1

\* the length of flow_rate_impact before tick i
FriLenBefore(i) == IF i = 1 THEN 0 ELSE fri_len_hist[i - 1]

\* C1 (clamp invariant): from the all-ones field, after any ticks with any
\* flow rate and any efficiency, out of range ones included, and any noise,
\* every cell of the field lies in [0, 1].
C1_ClampInvariant == \A c \in Cells : concentration[c] \in 0..Scale

\* two ticks at efficiency 150 have run, and the clamp holds the field at 0
C1_Witness ==
    /\ Ticks >= 2
    /\ exchange_efficiency = 150
    /\ \A c \in Cells : concentration[c] = 0

\* C2 (series append counts): after N ticks efficiency_over_time and
\* tank_area_impact have N entries each; flow_rate_impact has at most N, and
\* exactly N iff every tick's flow rate differs from the tick's before it.
C2_AppendCounts ==
    /\ Len(efficiency_over_time) = Ticks
    /\ Len(tank_area_impact) = Ticks
    /\ Len(flow_rate_impact) <= Ticks
    /\ Len(flow_rate_impact) = Ticks
          <=> \A i \in 2..Ticks : flow_hist[i] # flow_hist[i - 1]

\* three ticks, the flow rate changed at each: three entries in every series
C2_Witness ==
    /\ Ticks >= 3
    /\ \A i \in 2..Ticks : flow_hist[i] # flow_hist[i - 1]
    /\ Len(flow_rate_impact) = Ticks
    /\ Len(tank_area_impact) = Ticks

\* C3: no two consecutive entries of flow_rate_impact have the same flow
\* rate; a tick appends to it only when it is empty or its last entry's flow
\* rate differs from the tick's.
C3_NoAdjacentDuplicates ==
    /\ \A k \in 1..(Len(flow_rate_impact) - 1) :
           flow_rate_impact[k][1] # flow_rate_impact[k + 1][1]
    /\ \A i \in 1..Ticks :
           fri_len_hist[i] > FriLenBefore(i)
              => \/ FriLenBefore(i) = 0
                 \/ flow_rate_impact[FriLenBefore(i)][1] # flow_hist[i]

\* a tick that appended a second entry and a tick that appended none
C3_Witness ==
    /\ Len(flow_rate_impact) >= 2
    /\ Ticks > Len(flow_rate_impact)

\* the ticks i..j all ran at one flow rate
HeldOver(i, j) == \A k \in i..j : flow_hist[k] = flow_hist[i]

\* the entries flow_rate_impact gained over the ticks i..j
GrowthOver(i, j) == fri_len_hist[j] - FriLenBefore(i)

\* C4 as stated: over any K >= 1 consecutive ticks at one flow rate,
\* flow_rate_impact grows by exactly 1.
C4_AsStated ==
    \A i \in 1..Ticks : \A j \in i..Ticks :
        HeldOver(i, j) => GrowthOver(i, j) = 1

\* C4 (de-dup exactness), amended: over K >= 1 consecutive ticks at one flow
\* rate that begin with the session's first tick or right after a tick at
\* another flow rate, flow_rate_impact grows by exactly 1; over consecutive
\* ticks at the flow rate of the tick before them it grows by 0.
C4_DedupExactness ==
    \A i \in 1..Ticks : \A j \in i..Ticks :
        HeldOver(i, j)
           => GrowthOver(i, j) =
                 IF i = 1 \/ flow_hist[i - 1] # flow_hist[i] THEN 1 ELSE 0

\* the flow rate changed at the second tick and was held over the third
C4_Witness ==
    /\ Ticks >= 3
    /\ flow_hist[1] # flow_hist[2]
    /\ HeldOver(2, 3)
    /\ GrowthOver(2, 3) = 1

\* C5 (tick ordering): the entry a tick records carries the incremented time
\* step and the mean of the field the same tick's update left, not of the
\* field before the update.
C5_TickOrdering ==
    Ticks > 0 =>
        Last(efficiency_over_time) = <<time_step, Mean(concentration)>>

\* a second tick whose update changed the mean
C5_Witness ==
    /\ Ticks >= 2
    /\ efficiency_over_time[Ticks][2] # efficiency_over_time[Ticks - 1][2]
    /\ efficiency_over_time[Ticks][2] = Mean(concentration)

\* C6 (mean consistency): the entries one tick appends to the three series
\* carry one and the same average concentration.
C6_MeanConsistency ==
    \A i \in 1..Ticks :
        /\ tank_area_impact[i][2] = efficiency_over_time[i][2]
        /\ fri_len_hist[i] > FriLenBefore(i)
              => flow_rate_impact[fri_len_hist[i]][2] = efficiency_over_time[i][2]

\* a second tick that appended to all three series an average that is not
\* the first tick's
C6_Witness ==
    /\ Ticks >= 2
    /\ fri_len_hist[2] = 2
    /\ flow_rate_impact[2][2] # flow_rate_impact[1][2]
    /\ flow_rate_impact[2][2] = tank_area_impact[2][2]

\* C7: time_step is 0 at the session's start, every tick adds exactly 1 to
\* it, and no other operation (a plot, a parameter change) changes it.
C7_TimeStep ==
    /\ time_step = 0
    /\ [][IF IsTick THEN time_step' = time_step + 1
                    ELSE time_step' = time_step]_vars

\* ticks, a parameter change and a plot have happened
C7_Witness ==
    /\ time_step >= 2
    /\ flow_rate # DefaultFlow
    /\ figure.plot = "plot_efficiency_over_time"

\* a parameter the spec asks the caller never to supply
PreconditionViolated ==
    flow_rate <= 0 \/ tank_length <= 0 \/ tank_width <= 0

C10_NoEmptyUnpack ==
    /\ error = "none"
    /\ registered => /\ CanUnpack(efficiency_over_time)
                     /\ CanUnpack(flow_rate_impact)
                     /\ CanUnpack(tank_area_impact)

\* plot_flow_rate_impact has drawn a series of one entry
C10_Witness ==
    /\ figure.plot = "plot_flow_rate_impact"
    /\ Len(figure.xs) = 1
    /\ Len(flow_rate_impact) = 1
    /\ Ticks >= 2

\* a noise field of zeros
ZeroNoise == [c \in Cells |-> 0]

\* the field a zero-noise update of the current field with efficiency e gives
DecayedWith(e) == update_concentration(concentration, 0, e, ZeroNoise)

C12_FullEfficiency ==
    (Ticks > 0 /\ exchange_efficiency = PctDen)
       => /\ \A c \in Cells : concentration[c] = 0
          /\ Last(efficiency_over_time)[2] = 0

\* a tick at efficiency 100 and flow rate 10.0 on a field that was not 0
C12_Witness ==
    /\ Ticks >= 2
    /\ exchange_efficiency = PctDen
    /\ flow_rate = 100
    /\ efficiency_over_time[Ticks - 1][2] > 0
    /\ \A c \in Cells : concentration[c] = 0

\* C13: a tick at efficiency 0 and flow rate 0 leaves the field as it was,
\* whatever the noise, and records the field's mean; from the all-ones field
\* the average recorded is 1.
C13_Unchanged ==
    [][IsTick /\ flow_rate' = 0 /\ exchange_efficiency' = 0
          => /\ concentration' = concentration
             /\ Last(efficiency_over_time')[2] = Mean(concentration)
             /\ concentration = Ones
                   => Last(efficiency_over_time')[2] = Scale
      ]_vars

\* two ticks at efficiency 0 and flow rate 0 from the all-ones field
C13_Witness ==
    /\ Ticks >= 2
    /\ flow_rate = 0
    /\ exchange_efficiency = 0
    /\ concentration = Ones
    /\ \A i \in 1..Ticks : efficiency_over_time[i][2] = Scale

\* tick j runs at a flow rate that an earlier tick ran at and that the tick
\* before it did not
ReturnsAt(j) ==
    /\ j >= 3
    /\ flow_hist[j - 1] # flow_hist[j]
    /\ \E i \in 1..(j - 2) : flow_hist[i] = flow_hist[j]

\* C14: the de-duplication is adjacent-only: a tick at a flow rate v that
\* follows a tick at another flow rate appends (v, average) although an
\* earlier entry has the flow rate v already.
C14_AdjacentOnly ==
    \A j \in 1..Ticks :
        ReturnsAt(j)
           => /\ fri_len_hist[j] = FriLenBefore(j) + 1
              /\ flow_rate_impact[fri_len_hist[j]] =
                    <<flow_hist[j], efficiency_over_time[j][2]>>
              /\ \E k \in 1..FriLenBefore(j) :
                    flow_rate_impact[k][1] = flow_hist[j]

\* the third tick returned to the first tick's flow rate
C14_Witness ==
    /\ Ticks >= 3
    /\ ReturnsAt(3)
    /\ Len(flow_rate_impact) >= 3
    /\ flow_rate_impact[3][1] = flow_rate_impact[1][1]

\* C15: every tick appends exactly one entry to tank_area_impact, with the
\* area tank_length * tank_width of the tick's parameters and the tick's
\* average, also when the area is the previous entry's; tank_height does
\* not enter it.  (The parameters of a state are those its last tick ran
\* with.)
C15_TankArea ==
    /\ Len(tank_area_impact) = Ticks
    /\ Ticks > 0
          => Last(tank_area_impact) =
                <<tank_length * tank_width, Last(efficiency_over_time)[2]>>

\* three ticks with length 50 and width 20, the height changed: three
\* entries with the area 1000
C15_Witness ==
    /\ Ticks >= 3
    /\ tank_height # DefaultHeight
    /\ \A i \in 1..Ticks :
          tank_area_impact[i][1] = DefaultLength * DefaultWidth

\* s is a prefix of t
IsPrefix(s, t) ==
    /\ Len(s) <= Len(t)
    /\ \A i \in 1..Len(s) : t[i] = s[i]

\* C16: the three series are append-only: a step leaves the entries recorded
\* before it unchanged and in their order, and a step that is no tick (a
\* plot) changes neither the field, nor time_step, nor a series.
C16_AppendOnly ==
    [][/\ IsPrefix(efficiency_over_time, efficiency_over_time')
       /\ IsPrefix(flow_rate_impact, flow_rate_impact')
       /\ IsPrefix(tank_area_impact, tank_area_impact')
       /\ ~IsTick => UNCHANGED session
      ]_vars

\* after two ticks, with two entries recorded, a plot of the flow rate
\* series has run
C16_Witness ==
    /\ Ticks >= 2
    /\ Len(flow_rate_impact) >= 2
    /\ figure.plot = "plot_flow_rate_impact"
    /\ figure.xs = Unzip(flow_rate_impact)[1]

\* C17: between ticks, efficiency_over_time and tank_area_impact are as
\* long as time_step says, and the i-th efficiency entry carries the time
\* step i: the first one 1, not 0.
C17_StepsRecorded ==
    /\ Len(efficiency_over_time) = time_step
    /\ Len(tank_area_impact) = time_step
    /\ \A i \in 1..Len(efficiency_over_time) : efficiency_over_time[i][1] = i

\* three ticks recorded as the steps 1, 2, 3
C17_Witness ==
    /\ time_step = 3
    /\ efficiency_over_time[1][1] = 1
    /\ efficiency_over_time[3][1] = 3

\* the first tick of the run of equal flow rates that the last tick ends
RunStart ==
    CHOOSE i \in 1..Ticks :
        /\ HeldOver(i, Ticks)
        /\ i = 1 \/ flow_hist[i - 1] # flow_hist[i]

\* C18: after every tick flow_rate_impact is not empty, its last entry has
\* the tick's flow rate, and that entry's average is the one recorded by the
\* first tick of the current run of equal flow rates: later ticks at the
\* same flow rate do not refresh it.
C18_LastEntry ==
    Ticks > 0
       => /\ flow_rate_impact # <<>>
          /\ Last(flow_rate_impact) =
                <<flow_hist[Ticks], efficiency_over_time[RunStart][2]>>

\* a run of two ticks at one flow rate: the entry keeps the first one's
\* average, which is not the second one's
C18_Witness ==
    /\ Ticks >= 2
    /\ RunStart < Ticks
    /\ Last(flow_rate_impact)[2] # Last(efficiency_over_time)[2]
    /\ Last(flow_rate_impact)[2] = efficiency_over_time[RunStart][2]

====
